---- MODULE Spec2Model ----
(***************************************************************************)
(* A model of the pull-request review scripts of this repository:          *)
(*   src/llm.py               the review script (diff + Semgrep -> Gemini)  *)
(*   src/pr_summary_agent.py  the agent that also posts the review          *)
(*   src/smart_task_engine.py the task engine (specification SpecEngine)   *)
(* One run of one script is one behaviour.  The environment (environment   *)
(* variables, argv, the files on disk, the answers of the remote services) *)
(* is chosen nondeterministically.                                         *)
(***************************************************************************)
EXTENDS Integers, Sequences, FiniteSets, TLC

VARIABLES
    script,             \* which script this run executes
    pc,                 \* position of the run in the script
    exit_code,          \* process exit status, meaningful when pc = "exit"
    uncaught,           \* name of the exception that ended the run, or "none"
    stdout,             \* what the run printed, in order
    api_key,            \* os.getenv("GEMINI_API_KEY")
    diff_path,          \* sys.argv[1] or None
    semgrep_path,       \* sys.argv[2] or None
    github_env,         \* github_token, repo_full_name, pr_number of the agent
    diff_file,          \* the diff file on disk
    semgrep_file,       \* the Semgrep file on disk, as found when it is read
    diff_content,       \* the script's diff_content
    semgrep_json,       \* the script's semgrep_json
    analysis_metadata,  \* llm.py: the analysis_metadata dict
    meta_file,          \* analysis_output/semgrep_metadata.json on disk
    prompt,             \* llm.py: SystemPrompt; agent: mega_prompt
    llm_calls,          \* number of generate_content requests issued
    llm_result,         \* how the request ended: "none", "ok", "APIError", "Exception"
    response,           \* response.text of the request, when it returned
    review_output,      \* agent: the value call_gemini_api returned
    comments,           \* comments created on the pull request, in order
    save_result,        \* llm.py: how the write of the metadata file ended
    post_result,        \* agent: how post_review's calls to GitHub ended
    tasks,              \* TaskEngine.tasks
    storage,            \* the tasks file TaskStorage reads and writes
    cache,              \* ResultCache._cache
    sleeping,           \* run_task calls suspended in their handler, per task
    started,            \* number of run_task calls made
    last_return         \* the call that returned normally in the last step

vars == << script, pc, exit_code, uncaught, stdout, api_key, diff_path,
           semgrep_path, github_env, diff_file, semgrep_file, diff_content,
           semgrep_json, analysis_metadata, meta_file, prompt, llm_calls,
           llm_result, response, review_output, comments, save_result,
           post_result, tasks, storage, cache, sleeping, started, last_return >>

\* the state of the scripts, and the state of the task engine
scriptVars == << script, pc, exit_code, uncaught, stdout, api_key, diff_path,
                 semgrep_path, github_env, diff_file, semgrep_file, diff_content,
                 semgrep_json, analysis_metadata, meta_file, prompt, llm_calls,
                 llm_result, response, review_output, comments, save_result,
                 post_result >>
engineVars == << tasks, storage, cache, sleeping, started, last_return >>

----------------------------------------------------------------------------
(* Bounds of the model *)

MaxRuns == 3        \* a text has at most this many runs of equal characters
MaxFindings == 6    \* a Semgrep results list has at most this many findings
MaxTasks == 2       \* the task engine holds at most this many tasks
MaxCalls == 3       \* at most this many run_task calls are made

(* Constants of the program *)

MAX_DIFF_CHARS == 15000
MIN_DIFF_CHARS == 10
RELEVANT_LIMIT == 5
AGENT_MIN_DIFF_CHARS == 10

----------------------------------------------------------------------------
(* Python values.  Every value carries its type tag t and its payload v.   *)

PyNone == [t |-> "null", v |-> <<>>]
Str(s) == [t |-> "str", v |-> s]
Num(n) == [t |-> "num", v |-> n]
Bool(b) == [t |-> "bool", v |-> b]
List(s) == [t |-> "list", v |-> s]
Dict(f) == [t |-> "obj", v |-> f]

EmptyDict == [k \in {} |-> PyNone]

\* the dict literal {k: x}
Entry(k, x) == k :> x

\* bool(x)
Truthy(x) ==
    CASE x.t = "null" -> FALSE
      [] x.t = "str"  -> x.v # ""
      [] x.t = "num"  -> x.v # 0
      [] x.t = "bool" -> x.v
      [] x.t = "list" -> x.v # <<>>
      [] x.t = "obj"  -> DOMAIN x.v # {}

\* d.get(k, default) on a dict d
DictGet(d, k, default) == IF k \in DOMAIN d.v THEN d.v[k] ELSE default

\* d.update(e)
DictUpdate(d, e) == Dict(e.v @@ d.v)

\* whether x.get(...) exists: only a dict has the method
HasGet(x) == x.t = "obj"

\* isinstance(x, list)
IsList(x) == x.t = "list"

Min(a, b) == IF a <= b THEN a ELSE b

\* s[:k] on a list
SlicePrefix(s, k) == [i \in 1..Min(k, Len(s)) |-> s[i]]

----------------------------------------------------------------------------
(* Text.  A string is kept as its runs of equal characters, so that a diff *)
(* longer than MAX_DIFF_CHARS is a small value: <<[c |-> "a", n |-> 3]>>   *)
(* is "aaa".  Adjacent runs hold different characters and n >= 1.          *)

Run(c, n) == [c |-> c, n |-> n]

WhiteSpace == {" ", "\n", "\t", "\r"}

RECURSIVE TextLen(_)
\* len(s)
TextLen(s) == IF s = <<>> THEN 0 ELSE Head(s).n + TextLen(Tail(s))

RECURSIVE TextPrefix(_, _)
\* s[:k]
TextPrefix(s, k) ==
    IF k <= 0 \/ s = <<>> THEN <<>>
    ELSE IF Head(s).n <= k
         THEN <<Head(s)>> \o TextPrefix(Tail(s), k - Head(s).n)
         ELSE <<Run(Head(s).c, k)>>

RECURSIVE LStrip(_)
LStrip(s) ==
    IF s # <<>> /\ Head(s).c \in WhiteSpace THEN LStrip(Tail(s)) ELSE s

RECURSIVE RStrip(_)
RStrip(s) ==
    IF s # <<>> /\ s[Len(s)].c \in WhiteSpace
    THEN RStrip(SubSeq(s, 1, Len(s) - 1))
    ELSE s

\* s.strip()
Strip(s) == RStrip(LStrip(s))

----------------------------------------------------------------------------
(* The environment a run can meet *)

None == PyNone

Scripts == {"llm", "pr_summary_agent"}

\* os.getenv of a credential or name: unset, set to the empty string, or set
EnvValues(s) == {None, Str(""), Str(s)}

RunLens == {1, MIN_DIFF_CHARS - 1, MIN_DIFF_CHARS, MAX_DIFF_CHARS}
Runs == {Run(c, n) : c \in {" ", "a"}, n \in RunLens}

TextsOfRuns(k) ==
    {s \in [1..k -> Runs] : \A i \in 1..(k - 1) : s[i].c # s[i + 1].c}

\* the contents a diff file can have
Texts == UNION {TextsOfRuns(k) : k \in 0..MaxRuns}

NoFile == [state |-> "missing", content |-> <<>>]

\* the diff file: missing, present but unreadable, or present with a content
DiffFiles ==
    {NoFile, [state |-> "unreadable", content |-> <<>>]}
        \cup {[state |-> "ok", content |-> s] : s \in Texts}

\* the agent only measures the diff (read_inputs, line 41): its diff files
\* hold one run
AgentDiffFiles ==
    {f \in DiffFiles : Len(f.content) <= 1}

\* pr_summary_agent.py lines 15-18: int(os.getenv("PR_NUMBER")), None when the
\* variable is unset or is no integer
ParsePrNumber(env) ==
    CASE env = Str("0") -> Num(0)
      [] env = Str("7") -> Num(7)
      [] OTHER -> None

\* pr_summary_agent.py lines 12-18
GithubEnvs ==
    {[github_token |-> tok, repo_full_name |-> repo, pr_number |-> ParsePrNumber(n)] :
        tok \in {None, Str("ghp")}, repo \in {None, Str("owner/repo")},
        n \in {None, Str("abc"), Str("0"), Str("7")}}

NoGithubEnv == [github_token |-> None, repo_full_name |-> None, pr_number |-> None]

Finding(i) == Dict(Entry("check_id", Num(i)))
Findings(n) == [i \in 1..n |-> Finding(i)]

\* what the key "results" of a report can hold
ResultsValues ==
    {None, Str("x"), Num(3), Dict(EmptyDict)}
        \cup {List(Findings(n)) : n \in 0..MaxFindings}

ResultsPart == {EmptyDict} \cup {Entry("results", x) : x \in ResultsValues}

VersionErrorsPart ==
    {EmptyDict, Entry("version", Str("1.0")) @@ Entry("errors", List(<<>>))}

PathsPart ==
    {EmptyDict} \cup
    {Entry("paths", x) :
        x \in {Dict(Entry("scanned", List(<<Str("app.py")>>))),
               Dict(EmptyDict), Str("x"), None, List(<<>>)}}

\* what json.load can return: an object, or any other JSON value
JsonValues ==
    {Dict(r @@ m @@ p) : r \in ResultsPart, m \in VersionErrorsPart, p \in PathsPart}
        \cup {None, Str("x"), Num(3), List(Findings(2))}

\* the Semgrep file as the read finds it
SemgrepFiles ==
    {[state |-> st, value |-> None] : st \in {"missing", "unreadable", "invalid"}}
        \cup {[state |-> "ok", value |-> j] : j \in JsonValues}

Unread == [state |-> "unread", value |-> None]

\* a fixed piece of text, kept whole
Fragment(s) == <<Run(s, 1)>>

\* a line of standard output: what it says, and the text it carries
Line(m) == [msg |-> m, text |-> <<>>]
TextLine(m, s) == [msg |-> m, text |-> s]

\* no call has returned
NoReturn == [op |-> "none", id |-> 0, via |-> "none", was |-> "none"]

\* no task engine runs beside a script
NoEngine ==
    /\ tasks = <<>>
    /\ storage = <<>>
    /\ cache = <<>>
    /\ sleeping = <<>>
    /\ started = 0
    /\ last_return = NoReturn

----------------------------------------------------------------------------
Init ==
    /\ script \in Scripts
    /\ pc = "start"
    /\ exit_code = 0
    /\ uncaught = "none"
    /\ stdout = <<>>
    /\ api_key \in EnvValues("key")
    /\ diff_path \in {None, Str(""), Str("pr.diff")}
    /\ semgrep_path \in
          IF diff_path = None THEN {None} ELSE {None, Str(""), Str("semgrep.json")}
    /\ github_env \in IF script = "llm" THEN {NoGithubEnv} ELSE GithubEnvs
    /\ diff_file \in
          IF ~Truthy(diff_path) THEN {NoFile}
          ELSE IF script = "llm" THEN DiffFiles ELSE AgentDiffFiles
    /\ semgrep_file = Unread
    /\ diff_content = <<>>
    /\ semgrep_json = Dict(EmptyDict)
    /\ analysis_metadata = Dict(EmptyDict)
    /\ meta_file = None
    /\ prompt = None
    /\ llm_calls = 0
    /\ llm_result = "none"
    /\ response = <<>>
    /\ review_output = <<>>
    /\ comments = <<>>
    /\ save_result = "none"
    /\ post_result = "none"
    /\ NoEngine

\* sys.exit() without its argument: the exit status is 0
ExitZero(code) == pc' = "exit" /\ exit_code' = 0 /\ uncaught' = "none"

\* sys.exit(code)
Exit(code) == pc' = "exit" /\ exit_code' = code /\ uncaught' = "none"

\* an exception nothing catches: the interpreter prints it and exits with 1
Raise(exc) == pc' = "exit" /\ exit_code' = 1 /\ uncaught' = exc

Say(line) == stdout' = Append(stdout, line)

----------------------------------------------------------------------------
(* src/llm.py *)

\* a credential that is only tested for None: an empty one passes
MissingKeyNoneOnly(k) == k = None

\* line 13: not api_key
MissingKey(k) == ~Truthy(k)

\* lines 9-15: the credential is read and checked first
CheckApiKey ==
    /\ script = "llm" /\ pc = "start"
    /\ IF MissingKey(api_key)
       THEN Say(Line("Error: GEMINI_API_KEY environment variable not set.")) /\ Exit(1)
       ELSE pc' = "args" /\ UNCHANGED <<stdout, exit_code, uncaught>>
    /\ UNCHANGED <<script, api_key, diff_path, semgrep_path, github_env, diff_file,
                   semgrep_file, diff_content, semgrep_json, analysis_metadata,
                   meta_file, prompt, llm_calls, llm_result, response, review_output, comments>>
    /\ UNCHANGED <<save_result, post_result, engineVars>>

\* lines 18-28: the arguments, and the initial analysis_metadata
CheckDiffPath ==
    /\ script = "llm" /\ pc = "args"
    /\ IF ~Truthy(diff_path)
       THEN /\ Say(Line("Error: PR Diff path not provided. Exiting."))
            /\ Exit(1)
            /\ UNCHANGED analysis_metadata
       ELSE /\ analysis_metadata' = Dict(Entry("diff_truncated", Bool(FALSE)))
            /\ pc' = "read_diff"
            /\ UNCHANGED <<stdout, exit_code, uncaught>>
    /\ UNCHANGED <<script, api_key, diff_path, semgrep_path, github_env, diff_file,
                   semgrep_file, diff_content, semgrep_json, meta_file, prompt,
                   llm_calls, llm_result, response, review_output, comments>>
    /\ UNCHANGED <<save_result, post_result, engineVars>>

\* the diff read as read_inputs of the agent reads it: a file that is missing
\* or unreadable leaves diff_content empty and the run goes on
ReadDiffLenient ==
    /\ script = "llm" /\ pc = "read_diff"
    /\ diff_content' = IF diff_file.state = "ok" THEN diff_file.content ELSE <<>>
    /\ pc' = "check_size"
    /\ UNCHANGED <<script, exit_code, uncaught, stdout, api_key, diff_path,
                   semgrep_path, github_env, diff_file, semgrep_file, semgrep_json,
                   analysis_metadata, meta_file, prompt, llm_calls, llm_result,
                   response, review_output, comments>>
    /\ UNCHANGED <<save_result, post_result, engineVars>>

\* lines 32-44: the diff file is read; a missing or unreadable file is fatal
ReadDiff ==
    /\ script = "llm" /\ pc = "read_diff"
    /\ CASE diff_file.state = "ok" ->
              /\ diff_content' = diff_file.content
              /\ pc' = "check_size"
              /\ UNCHANGED <<stdout, exit_code, uncaught>>
         [] diff_file.state = "unreadable" ->
              /\ Say(Line("FATAL ERROR: Could not read diff file"))
              /\ Exit(1)
              /\ UNCHANGED diff_content
         [] diff_file.state = "missing" ->
              /\ stdout' = stdout \o
                    << Line("FATAL ERROR: PR diff file not found at expected path"),
                       Line("Check the 'Fetch PR Diff' step output") >>
              /\ Exit(1)
              /\ UNCHANGED diff_content
    /\ UNCHANGED <<script, api_key, diff_path, semgrep_path, github_env, diff_file,
                   semgrep_file, semgrep_json, analysis_metadata, meta_file, prompt,
                   llm_calls, llm_result, response, review_output, comments>>
    /\ UNCHANGED <<save_result, post_result, engineVars>>

\* the diff measured without .strip()
TooSmallUnstripped(s) == TextLen(s) < MIN_DIFF_CHARS

\* line 46: len(diff_content.strip()) < 10
TooSmall(s) == TextLen(Strip(s)) < MIN_DIFF_CHARS

\* lines 46-48: a diff too small to review ends the run successfully
CheckDiffSize ==
    /\ script = "llm" /\ pc = "check_size"
    /\ IF TooSmall(diff_content)
       THEN Say(Line("Diff missing or too small to review. Exiting.")) /\ Exit(0)
       ELSE pc' = "truncate" /\ UNCHANGED <<stdout, exit_code, uncaught>>
    /\ UNCHANGED <<script, api_key, diff_path, semgrep_path, github_env, diff_file,
                   semgrep_file, diff_content, semgrep_json, analysis_metadata,
                   meta_file, prompt, llm_calls, llm_result, response, review_output, comments>>
    /\ UNCHANGED <<save_result, post_result, engineVars>>

\* >= in the place of >
TooLongInclusive(s) == TextLen(s) >= MAX_DIFF_CHARS

\* line 51: len(diff_content) > MAX_DIFF_CHARS
TooLong(s) == TextLen(s) > MAX_DIFF_CHARS

\* line 52: diff_content[:MAX_DIFF_CHARS]
Truncated(s) == TextPrefix(s, MAX_DIFF_CHARS)

\* lines 50-54: a long diff is cut and the cut is recorded
TruncateDiff ==
    /\ script = "llm" /\ pc = "truncate"
    /\ IF TooLong(diff_content)
       THEN /\ diff_content' = Truncated(diff_content)
            /\ analysis_metadata' =
                  DictUpdate(analysis_metadata, Dict(Entry("diff_truncated", Bool(TRUE))))
            /\ Say(Line("Warning: Diff content truncated."))
       ELSE UNCHANGED <<diff_content, analysis_metadata, stdout>>
    /\ pc' = "read_semgrep"
    /\ UNCHANGED <<script, exit_code, uncaught, api_key, diff_path, semgrep_path,
                   github_env, diff_file, semgrep_file, semgrep_json, meta_file,
                   prompt, llm_calls, llm_result, response, review_output, comments>>
    /\ UNCHANGED <<save_result, post_result, engineVars>>

\* lines 58-69: the Semgrep file is read; every failure leaves semgrep_json = {}
ReadSemgrep ==
    /\ script = "llm" /\ pc = "read_semgrep"
    /\ IF Truthy(semgrep_path)
       THEN \E f \in SemgrepFiles :
              /\ semgrep_file' = f
              /\ CASE f.state = "ok" ->
                        /\ semgrep_json' = f.value
                        /\ UNCHANGED stdout
                   [] f.state = "invalid" ->
                        /\ semgrep_json' = Dict(EmptyDict)
                        /\ Say(Line("Warning: Failed to parse Semgrep JSON."))
                   [] f.state = "unreadable" ->
                        /\ semgrep_json' = Dict(EmptyDict)
                        /\ Say(Line("Warning: Error reading Semgrep file"))
                   [] f.state = "missing" ->
                        /\ semgrep_json' = Dict(EmptyDict)
                        /\ Say(Line("Warning: Semgrep file not found."))
       ELSE /\ semgrep_json' = Dict(EmptyDict)
            /\ Say(Line("Warning: Semgrep file not found."))
            /\ UNCHANGED semgrep_file
    /\ pc' = "extract"
    /\ UNCHANGED <<script, exit_code, uncaught, api_key, diff_path, semgrep_path,
                   github_env, diff_file, diff_content, analysis_metadata, meta_file,
                   prompt, llm_calls, llm_result, response, review_output,
                   comments>>
    /\ UNCHANGED <<save_result, post_result, engineVars>>

\* line 73: semgrep_json.get("results")
ResultsOf(j) == DictGet(j, "results", None)

\* line 77
TotalFindings(results) == IF IsList(results) THEN Len(results.v) ELSE 0

\* the findings without the [:5]
RelevantFindingsUncut(results) ==
    IF IsList(results) /\ Truthy(results) THEN results ELSE Str("No findings.")

\* the findings without the isinstance test
RelevantFindingsUntyped(results) ==
    IF Truthy(results) THEN results ELSE Str("No findings.")

\* line 80
RelevantFindings(results) ==
    IF IsList(results) /\ Truthy(results)
    THEN List(SlicePrefix(results.v, RELEVANT_LIMIT))
    ELSE Str("No findings.")

\* line 79: semgrep_json.get("paths", {})
PathsOf(j) == DictGet(j, "paths", Dict(EmptyDict))

\* lines 73 and 79 call .get on semgrep_json and on its "paths": a value that
\* is not a dict has no such method
ExtractRaises(j) == ~HasGet(j) \/ ~HasGet(PathsOf(j))

\* lines 75-81: the dict given to analysis_metadata.update
Extracted(j) ==
    Dict(Entry("version", DictGet(j, "version", Str("N/A")))
      @@ Entry("total_findings", Num(TotalFindings(ResultsOf(j))))
      @@ Entry("errors", DictGet(j, "errors", Str("None")))
      @@ Entry("paths_scanned", DictGet(PathsOf(j), "scanned", Str("N/A")))
      @@ Entry("relevant_findings", RelevantFindings(ResultsOf(j))))

\* lines 73-81: the metadata is extracted from the report
ExtractMetadata ==
    /\ script = "llm" /\ pc = "extract"
    /\ IF ExtractRaises(semgrep_json)
       THEN Raise("AttributeError") /\ UNCHANGED analysis_metadata
       ELSE /\ analysis_metadata' = DictUpdate(analysis_metadata, Extracted(semgrep_json))
            /\ pc' = "save"
            /\ UNCHANGED <<exit_code, uncaught>>
    /\ UNCHANGED <<script, stdout, api_key, diff_path, semgrep_path, github_env,
                   diff_file, semgrep_file, diff_content, semgrep_json, meta_file,
                   prompt, llm_calls, llm_result, response, review_output,
                   comments>>
    /\ UNCHANGED <<save_result, post_result, engineVars>>

RECURSIVE JsonDumps(_)
\* json.dumps(x): the JSON document of a Python value
JsonDumps(x) ==
    CASE x.t = "null" -> [json |-> "null", v |-> <<>>]
      [] x.t = "bool" -> [json |-> IF x.v THEN "true" ELSE "false", v |-> <<>>]
      [] x.t = "num"  -> [json |-> "number", v |-> x.v]
      [] x.t = "str"  -> [json |-> "string", v |-> x.v]
      [] x.t = "list" -> [json |-> "array",
                          v |-> [i \in DOMAIN x.v |-> JsonDumps(x.v[i])]]
      [] x.t = "obj"  -> [json |-> "object",
                          v |-> [k \in DOMAIN x.v |-> JsonDumps(x.v[k])]]

\* how creating the directory and writing the file can end
SaveOutcomes == {"ok", "makedirs raises", "open raises"}

\* lines 85-91: the metadata is written to analysis_output/semgrep_metadata.json;
\* nothing catches a failure of os.makedirs or open
SaveMetadata ==
    /\ script = "llm" /\ pc = "save"
    /\ \E o \in SaveOutcomes :
         /\ save_result' = o
         /\ IF o = "ok"
            THEN /\ meta_file' = JsonDumps(analysis_metadata)
                 /\ Say(Line("Saved Semgrep metadata"))
                 /\ pc' = "build_prompt"
                 /\ UNCHANGED <<exit_code, uncaught>>
            ELSE /\ Raise("OSError")
                 /\ UNCHANGED <<meta_file, stdout>>
    /\ UNCHANGED <<script, api_key, diff_path, semgrep_path, github_env, diff_file,
                   semgrep_file, diff_content, semgrep_json, analysis_metadata,
                   prompt, llm_calls, llm_result, response, review_output,
                   comments>>
    /\ UNCHANGED <<post_result, engineVars>>

\* lines 95-112: SystemPrompt holds the diff and the serialized metadata
SystemPrompt(diff, metadata) == [diff |-> diff, metadata |-> JsonDumps(metadata)]

\* lines 95-131: the prompts are built
BuildPrompt ==
    /\ script = "llm" /\ pc = "build_prompt"
    /\ prompt' = SystemPrompt(diff_content, analysis_metadata)
    /\ pc' = "call"
    /\ UNCHANGED <<script, exit_code, uncaught, stdout, api_key, diff_path,
                   semgrep_path, github_env, diff_file, semgrep_file, diff_content,
                   semgrep_json, analysis_metadata, meta_file, llm_calls,
                   llm_result, response, review_output, comments>>
    /\ UNCHANGED <<save_result, post_result, engineVars>>

\* the texts the model answers with
ResponseTexts ==
    { <<>>,
      <<Run("r", 9)>>,
      <<Run(" ", 1), Run("r", 9), Run("\n", 2)>> }

\* how the code under try (the request and the use of its response) can end
LlmFailures == {"APIError", "Exception"}

\* lines 135-164: one request; a failure is printed and ends the run with 1
CallGemini ==
    /\ script = "llm" /\ pc = "call"
    /\ llm_calls' = llm_calls + 1
    /\ \/ \E e \in LlmFailures :
            /\ llm_result' = e
            /\ Say(Line(IF e = "APIError"
                        THEN "Error: Gemini API call failed"
                        ELSE "An unexpected error occurred"))
            /\ Exit(1)
            /\ UNCHANGED response
       \/ \E text \in ResponseTexts :
            /\ llm_result' = "ok"
            /\ response' = text
            /\ Say(TextLine("review", Strip(text)))
            /\ Exit(0)
    /\ UNCHANGED <<script, api_key, diff_path, semgrep_path, github_env, diff_file,
                   semgrep_file, diff_content, semgrep_json, analysis_metadata,
                   meta_file, prompt, review_output, comments>>
    /\ UNCHANGED <<save_result, post_result, engineVars>>

LlmNext ==
    \/ CheckApiKey
    \/ CheckDiffPath
    \/ ReadDiff
    \/ CheckDiffSize
    \/ TruncateDiff
    \/ ReadSemgrep
    \/ ExtractMetadata
    \/ SaveMetadata
    \/ BuildPrompt
    \/ CallGemini

----------------------------------------------------------------------------
(* src/pr_summary_agent.py *)

\* line 41: len(diff_content) < 10
AgentTooSmall(s) == TextLen(s) < AGENT_MIN_DIFF_CHARS

\* lines 33-54, read_inputs: the diff is read when its file exists, a small
\* diff ends the run with 0, and a Semgrep file that cannot be loaded becomes
\* {"error": ...}
AgentReadInputs ==
    /\ script = "pr_summary_agent" /\ pc = "start"
    /\ IF Truthy(diff_path) /\ diff_file.state = "unreadable"
       THEN /\ Raise("OSError")
            /\ UNCHANGED <<stdout, diff_content, semgrep_file, semgrep_json>>
       ELSE LET content == IF Truthy(diff_path) /\ diff_file.state = "ok"
                           THEN diff_file.content ELSE <<>>
            IN /\ diff_content' = content
               /\ IF AgentTooSmall(content)
                  THEN /\ Say(Line("Diff missing or too small. Exiting."))
                       /\ Exit(0)
                       /\ UNCHANGED <<semgrep_file, semgrep_json>>
                  ELSE /\ pc' = "create_mega_prompt"
                       /\ UNCHANGED <<exit_code, uncaught>>
                       /\ IF Truthy(semgrep_path)
                          THEN \E f \in SemgrepFiles :
                                 /\ semgrep_file' = f
                                 /\ CASE f.state = "ok" ->
                                           /\ semgrep_json' = f.value
                                           /\ UNCHANGED stdout
                                      [] f.state = "missing" ->
                                           /\ semgrep_json' = Dict(EmptyDict)
                                           /\ UNCHANGED stdout
                                      [] OTHER ->
                                           /\ semgrep_json' =
                                                Dict(Entry("error", Str(f.state)))
                                           /\ Say(Line("Warning: Could not parse Semgrep JSON"))
                          ELSE UNCHANGED <<semgrep_file, semgrep_json, stdout>>
    /\ UNCHANGED <<script, api_key, diff_path, semgrep_path, github_env, diff_file,
                   analysis_metadata, meta_file, prompt, llm_calls, llm_result,
                   response, review_output, comments>>
    /\ UNCHANGED <<save_result, post_result, engineVars>>

\* line 98: semgrep_json.get("results", [])
AgentFindings(j) == DictGet(j, "results", List(<<>>))

\* whether len(x) is defined
HasLen(x) == x.t \in {"list", "obj", "str"}

\* len(x); the strings of the model have one character
PyLen(x) ==
    CASE x.t = "list" -> Len(x.v)
      [] x.t = "obj"  -> Cardinality(DOMAIN x.v)
      [] x.t = "str"  -> IF x.v = "" THEN 0 ELSE 1

\* lines 92-133, create_mega_prompt: the diff, the number of findings and the
\* findings
AgentCreateMegaPrompt ==
    /\ script = "pr_summary_agent" /\ pc = "create_mega_prompt"
    /\ IF ~HasGet(semgrep_json)
       THEN Raise("AttributeError") /\ UNCHANGED prompt
       ELSE IF ~HasLen(AgentFindings(semgrep_json))
       THEN Raise("TypeError") /\ UNCHANGED prompt
       ELSE /\ prompt' = [diff |-> diff_content,
                          total |-> PyLen(AgentFindings(semgrep_json)),
                          findings |-> JsonDumps(AgentFindings(semgrep_json))]
            /\ pc' = "call_gemini_api"
            /\ UNCHANGED <<exit_code, uncaught>>
    /\ UNCHANGED <<script, stdout, api_key, diff_path, semgrep_path, github_env,
                   diff_file, semgrep_file, diff_content, semgrep_json,
                   analysis_metadata, meta_file, llm_calls, llm_result, response,
                   review_output, comments>>
    /\ UNCHANGED <<save_result, post_result, engineVars>>

\* line 139: not api_key
AgentMissingKey(k) == ~Truthy(k)

\* line 158: what call_gemini_api returns when the request raised
FailureMessage ==
    Fragment("Gemini API Call Failed. Check service connection or API key validity.")

\* lines 136-158, call_gemini_api: without the credential the run ends with 1;
\* a request that raises is printed and the failure message is returned
AgentCallGeminiApi ==
    /\ script = "pr_summary_agent" /\ pc = "call_gemini_api"
    /\ IF AgentMissingKey(api_key)
       THEN /\ Say(Line("Error: GEMINI_API_KEY is not set."))
            /\ Exit(1)
            /\ UNCHANGED <<llm_calls, llm_result, response, review_output>>
       ELSE /\ llm_calls' = llm_calls + 1
            /\ pc' = "post_review"
            /\ UNCHANGED <<exit_code, uncaught>>
            /\ \/ \E e \in LlmFailures :
                    /\ llm_result' = e
                    /\ Say(Line("Error during Gemini API call"))
                    /\ review_output' = FailureMessage
                    /\ UNCHANGED response
               \/ \E text \in ResponseTexts :
                    /\ llm_result' = "ok"
                    /\ response' = text
                    /\ review_output' = Strip(text)
                    /\ UNCHANGED stdout
    /\ UNCHANGED <<script, api_key, diff_path, semgrep_path, github_env, diff_file,
                   semgrep_file, diff_content, semgrep_json, analysis_metadata,
                   meta_file, prompt, comments>>
    /\ UNCHANGED <<save_result, post_result, engineVars>>

\* line 62: github_token and repo_full_name and pr_number
CanPost(env) ==
    Truthy(env.github_token) /\ Truthy(env.repo_full_name) /\ Truthy(env.pr_number)

\* lines 73-74: header + review_text
FinalComment(n, review_text) ==
    [pr |-> n, body |-> Fragment("## Automated Gemini Code Review for PR") \o review_text]

\* how the calls to GitHub can end
PostOutcomes ==
    {"ok", "get_repo raises", "get_pull raises", "create_issue_comment raises"}

\* the handler of line 79 without its sys.exit(1): post_review returns
PostFailureReturns == pc' = "final_output" /\ UNCHANGED <<exit_code, uncaught>>

\* line 83: sys.exit(1) in the handler of a failed post
PostFailureExits == Exit(1)

\* lines 59-83, post_review: the text is posted as a comment; without the
\* GitHub settings it is only printed; a failure of GitHub ends the run with 1
AgentPostReview ==
    /\ script = "pr_summary_agent" /\ pc = "post_review"
    /\ IF ~CanPost(github_env)
       THEN /\ stdout' = stdout \o
                  << Line("Error: Missing GitHub token or PR metadata. Cannot post review."),
                     TextLine("Generated Review", review_output) >>
            /\ pc' = "final_output"
            /\ post_result' = "not tried"
            /\ UNCHANGED <<exit_code, uncaught, comments>>
       ELSE \E o \in PostOutcomes :
              /\ post_result' = o
              /\ IF o = "ok"
                 THEN /\ comments' =
                           Append(comments,
                                  FinalComment(github_env.pr_number.v, review_output))
                      /\ Say(Line("Successfully posted consolidated review to Pull Request."))
                      /\ pc' = "final_output"
                      /\ UNCHANGED <<exit_code, uncaught>>
                 ELSE /\ stdout' = stdout \o
                            << Line("Error posting comment to GitHub"),
                               TextLine("Generated Review (not posted)", review_output) >>
                      /\ PostFailureExits
                      /\ UNCHANGED comments
    /\ UNCHANGED <<script, api_key, diff_path, semgrep_path, github_env, diff_file,
                   semgrep_file, diff_content, semgrep_json, analysis_metadata,
                   meta_file, prompt, llm_calls, llm_result, response,
                   review_output>>
    /\ UNCHANGED <<save_result, engineVars>>

\* lines 178-180: the review is printed and the script ends
AgentFinalOutput ==
    /\ script = "pr_summary_agent" /\ pc = "final_output"
    /\ stdout' = stdout \o
          << Line("--- Final Review Output ---"), TextLine("review", review_output) >>
    /\ Exit(0)
    /\ UNCHANGED <<script, api_key, diff_path, semgrep_path, github_env, diff_file,
                   semgrep_file, diff_content, semgrep_json, analysis_metadata,
                   meta_file, prompt, llm_calls, llm_result, response,
                   review_output, comments>>
    /\ UNCHANGED <<save_result, post_result, engineVars>>

AgentNext ==
    \/ AgentReadInputs
    \/ AgentCreateMegaPrompt
    \/ AgentCallGeminiApi
    \/ AgentPostReview
    \/ AgentFinalOutput

Next == LlmNext \/ AgentNext

Spec == Init /\ [][Next]_vars

----------------------------------------------------------------------------
(* src/smart_task_engine.py: one TaskEngine, its storage and its cache.    *)
(* The calls of create_task and run_task are coroutines on one event loop: *)
(* a call runs until it suspends, and it suspends only in asyncio.sleep of *)
(* its handler.  TaskStorage.save_all holds its lock over no suspension,   *)
(* so the lock is free whenever a call asks for it and the save is part of *)
(* the step that calls it.                                                 *)

\* lines 66-73: a task; its id is its key and, like created_at, never changes
Task(name, payload, status, result) ==
    [name |-> name, payload |-> payload, status |-> status, result |-> result]

\* line 219: {"error": str(e)}
ErrorResult(e) == Dict(Entry("error", Str(e)))

\* line 128: hashlib.sha256(data.encode()).hexdigest()
Sha256Hex(data) ==
    CASE data = "" ->
           "e3b0c44298fc1c149afbf4c8996fb92427ae41e4649b934ca495991b7852b855"
      [] data = "a" ->
           "ca978112ca1bbdcafac231b39a23dc4da786eff8147c4e72b9807785afee48bb"

\* every element is an int
AllNumbers(s) == \A i \in DOMAIN s : s[i].t = "num"

RECURSIVE PySum(_)
\* sum(nums)
PySum(s) == IF s = <<>> THEN 0 ELSE Head(s).v + PySum(Tail(s))

\* max(nums, default=0)
PyMax(s) ==
    IF s = <<>> THEN 0
    ELSE CHOOSE x \in {s[i].v : i \in DOMAIN s} : \A i \in DOMAIN s : s[i].v <= x

\* min(nums, default=0)
PyMin(s) ==
    IF s = <<>> THEN 0
    ELSE CHOOSE x \in {s[i].v : i \in DOMAIN s} : \A i \in DOMAIN s : x <= s[i].v

\* the result of a handler: a value, or the exception it raised
Returned(x) == [raised |-> "none", value |-> x]
Raised(e) == [raised |-> e, value |-> None]

\* lines 126 and 132: payload.get(...) runs before the handler suspends and
\* raises on a payload that is no dict
RaisesBeforeSleep(name, payload) == ~HasGet(payload)

\* lines 124-128, HashTaskHandler.execute after its sleep
HashResult(payload) ==
    LET data == DictGet(payload, "data", Str(""))
    IN IF data.t = "str" THEN Returned(Str(Sha256Hex(data.v)))
       ELSE Raised("AttributeError")

\* lines 130-138, MathTaskHandler.execute after its sleep
MathResult(payload) ==
    LET nums == DictGet(payload, "numbers", List(<<>>))
    IN IF nums.t = "list" /\ AllNumbers(nums.v)
       THEN Returned(Dict(Entry("sum", Num(PySum(nums.v)))
                       @@ Entry("max", Num(PyMax(nums.v)))
                       @@ Entry("min", Num(PyMin(nums.v)))))
       ELSE Raised("TypeError")

\* a handler whose result is not a function of the payload: it may raise
HandlerOutcomesFlaky(name, payload) ==
    {IF name = "hash" THEN HashResult(payload) ELSE MathResult(payload),
     Raised("RuntimeError")}

\* lines 124-138: how handler.execute(payload) can end once it resumes
HandlerOutcomes(name, payload) ==
    {IF name = "hash" THEN HashResult(payload) ELSE MathResult(payload)}

\* lines 145-148
Handlers == {"hash", "math"}

\* line 200: the key of the cache
CacheKey(task) == <<task.name, JsonDumps(task.payload)>>

RECURSIVE SameJson(_, _)
\* two JSON documents are the same text
SameJson(a, b) ==
    /\ a.json = b.json
    /\ CASE a.json \in {"null", "true", "false"} -> TRUE
         [] a.json \in {"number", "string"} -> a.v = b.v
         [] a.json = "array" ->
              /\ Len(a.v) = Len(b.v)
              /\ \A i \in DOMAIN a.v : SameJson(a.v[i], b.v[i])
         [] a.json = "object" ->
              /\ DOMAIN a.v = DOMAIN b.v
              /\ \A k \in DOMAIN a.v : SameJson(a.v[k], b.v[k])

\* two keys of the cache are the same string
SameKey(k1, k2) == k1[1] = k2[1] /\ SameJson(k1[2], k2[2])

\* lines 109-110: ResultCache.get; the cache is its entries in the order of
\* their insertion
CacheGet(c, key) ==
    IF \E i \in DOMAIN c : SameKey(c[i].key, key)
    THEN c[CHOOSE i \in DOMAIN c : SameKey(c[i].key, key)].value
    ELSE None

\* lines 112-113: ResultCache.set
CacheSet(c, key, value) ==
    IF \E i \in DOMAIN c : SameKey(c[i].key, key)
    THEN [i \in DOMAIN c |->
            IF SameKey(c[i].key, key) THEN [key |-> key, value |-> value] ELSE c[i]]
    ELSE Append(c, [key |-> key, value |-> value])

\* line 97: v.__dict__ of a task, as json.dump writes it
Serialized(task) ==
    JsonDumps(Dict(Entry("name", Str(task.name))
                @@ Entry("payload", task.payload)
                @@ Entry("status", Str(task.status))
                @@ Entry("result", task.result)))

RECURSIVE JsonLoads(_)
\* json.load: the Python value of a JSON document
JsonLoads(j) ==
    CASE j.json = "null"   -> None
      [] j.json = "true"   -> Bool(TRUE)
      [] j.json = "false"  -> Bool(FALSE)
      [] j.json = "number" -> Num(j.v)
      [] j.json = "string" -> Str(j.v)
      [] j.json = "array"  -> List([i \in DOMAIN j.v |-> JsonLoads(j.v[i])])
      [] j.json = "object" -> Dict([k \in DOMAIN j.v |-> JsonLoads(j.v[k])])

\* line 93: Task(**v)
Deserialized(j) ==
    LET d == JsonLoads(j).v
    IN Task(d["name"].v, d["payload"], d["status"].v, d["result"])

\* lines 95-99, TaskStorage.save_all: the file holds every task
SaveAll(ts) == [i \in DOMAIN ts |-> Serialized(ts[i])]

\* lines 85-93, TaskStorage.load_all
LoadAll(file) == [i \in DOMAIN file |-> Deserialized(file[i])]

\* the names and payloads of the tasks that are created
TaskKinds ==
    { <<"hash", Dict(Entry("data", Str("a")))>>,
      <<"hash", Dict(Entry("data", Num(5)))>>,
      <<"hash", List(<<>>)>>,
      <<"math", Dict(Entry("numbers", List(<<Num(1), Num(2)>>)))>>,
      <<"math", Dict(Entry("numbers", List(<<Str("x")>>)))>>,
      <<"zip", Dict(EmptyDict)>> }

\* the tasks file an earlier process can have left: no task, or one task in
\* any of the states run_task saves
StoredTasks ==
    {<<>>} \cup
    {<<Task(k[1], k[2], st, None)>> : k \in TaskKinds, st \in {"PENDING", "RUNNING"}}
    \cup
    {<<Task("hash", Dict(Entry("data", Str("a"))), "COMPLETED",
            HashResult(Dict(Entry("data", Str("a")))).value)>>,
     <<Task("hash", Dict(Entry("data", Num(5))), "FAILED",
            ErrorResult("AttributeError"))>>}

\* the script variables have no part in the task engine
NoScript ==
    /\ script = "smart_task_engine"
    /\ pc = "engine"
    /\ exit_code = 0
    /\ uncaught = "none"
    /\ stdout = <<>>
    /\ api_key = None
    /\ diff_path = None
    /\ semgrep_path = None
    /\ github_env = NoGithubEnv
    /\ diff_file = NoFile
    /\ semgrep_file = Unread
    /\ diff_content = <<>>
    /\ semgrep_json = Dict(EmptyDict)
    /\ analysis_metadata = Dict(EmptyDict)
    /\ meta_file = None
    /\ prompt = None
    /\ llm_calls = 0
    /\ llm_result = "none"
    /\ response = <<>>
    /\ review_output = <<>>
    /\ comments = <<>>
    /\ save_result = "none"
    /\ post_result = "none"

\* lines 174-176 and 274-282: the engine after bootstrap, its cache empty
EngineInit ==
    /\ NoScript
    /\ \E ts \in StoredTasks :
         /\ storage = SaveAll(ts)
         /\ tasks = LoadAll(SaveAll(ts))
    /\ cache = <<>>
    /\ sleeping = [i \in 1..MaxTasks |-> 0]
    /\ started = 0
    /\ last_return = NoReturn

\* a call of op on task id returned normally
ReturnOf(op, id, via, was) == [op |-> op, id |-> id, via |-> via, was |-> was]

\* task id of ts with a new status and result
SetTask(ts, id, status, result) ==
    [ts EXCEPT ![id] = Task(ts[id].name, ts[id].payload, status, result)]

\* lines 178-189, create_task
CreateTask ==
    /\ Len(tasks) < MaxTasks
    /\ \E k \in TaskKinds :
         /\ tasks' = Append(tasks, Task(k[1], k[2], "PENDING", None))
         /\ storage' = SaveAll(tasks')
         /\ last_return' = ReturnOf("create_task", Len(tasks) + 1, "created", "none")
    /\ UNCHANGED <<cache, sleeping, started, scriptVars>>

\* lines 191-210 and the handler up to its sleep: run_task from its call to
\* its first suspension, or to its return when it does not suspend
RunTaskStart(id) ==
    /\ started < MaxCalls
    /\ started' = started + 1
    /\ IF id \notin DOMAIN tasks
       THEN \* line 193: KeyError
            /\ last_return' = NoReturn
            /\ UNCHANGED <<tasks, storage, sleeping>>
       ELSE LET task == tasks[id]
                cached == CacheGet(cache, CacheKey(task))
            IN IF task.status = "COMPLETED"
               THEN /\ last_return' = ReturnOf("run_task", id, "completed", task.status)
                    /\ UNCHANGED <<tasks, storage, sleeping>>
               ELSE IF Truthy(cached)
               THEN /\ tasks' = SetTask(tasks, id, "COMPLETED", cached)
                    /\ last_return' = ReturnOf("run_task", id, "cache", task.status)
                    /\ UNCHANGED <<storage, sleeping>>
               ELSE IF task.name \notin Handlers
               THEN \* line 153: ValueError
                    /\ last_return' = NoReturn
                    /\ UNCHANGED <<tasks, storage, sleeping>>
               ELSE IF RaisesBeforeSleep(task.name, task.payload)
               THEN /\ tasks' = SetTask(tasks, id, "FAILED", ErrorResult("AttributeError"))
                    /\ storage' = SaveAll(tasks')
                    /\ last_return' = ReturnOf("run_task", id, "handler", task.status)
                    /\ UNCHANGED sleeping
               ELSE /\ tasks' = SetTask(tasks, id, "RUNNING", task.result)
                    /\ storage' = SaveAll(tasks')
                    /\ sleeping' = [sleeping EXCEPT ![id] = @ + 1]
                    /\ last_return' = NoReturn
    /\ UNCHANGED <<cache, scriptVars>>

\* lines 213-223: a suspended run_task resumes with the result of its handler
RunTaskResume(id) ==
    /\ sleeping[id] > 0
    /\ sleeping' = [sleeping EXCEPT ![id] = @ - 1]
    /\ \E o \in HandlerOutcomes(tasks[id].name, tasks[id].payload) :
         IF o.raised = "none"
         THEN /\ tasks' = SetTask(tasks, id, "COMPLETED", o.value)
              /\ cache' = CacheSet(cache, CacheKey(tasks[id]), o.value)
         ELSE /\ tasks' = SetTask(tasks, id, "FAILED", ErrorResult(o.raised))
              /\ UNCHANGED cache
    /\ storage' = SaveAll(tasks')
    /\ last_return' = ReturnOf("run_task", id, "handler", tasks[id].status)
    /\ UNCHANGED <<started, scriptVars>>

EngineNext ==
    \/ CreateTask
    \/ \E id \in 1..MaxTasks : RunTaskStart(id)
    \/ \E id \in 1..MaxTasks : RunTaskResume(id)

SpecEngine == EngineInit /\ [][EngineNext]_vars

----------------------------------------------------------------------------
(* Properties of src/llm.py *)

\* a line saying m was printed
Printed(m) == \E i \in DOMAIN stdout : stdout[i].msg = m

\* the run got past the extraction of lines 73-81
MetadataBuilt == script = "llm" /\ "total_findings" \in DOMAIN analysis_metadata.v

\* the Semgrep file was loaded and its "results" is a list
ResultsIsList ==
    /\ semgrep_file.state = "ok"
    /\ semgrep_json.t = "obj"
    /\ "results" \in DOMAIN semgrep_json.v
    /\ semgrep_json.v["results"].t = "list"

\* the Semgrep file was loaded as an object whose "results" is absent or no list
ResultsIsNoList ==
    /\ semgrep_file.state = "ok"
    /\ semgrep_json.t = "obj"
    /\ ("results" \in DOMAIN semgrep_json.v => semgrep_json.v["results"].t # "list")

\* relevant_findings is the list of the first min(N, 5) findings, in order
FirstFive(r, m) ==
    /\ m["relevant_findings"].t = "list"
    /\ Len(m["relevant_findings"].v) = Min(Len(r), 5)
    /\ \A i \in 1..Min(Len(r), 5) : m["relevant_findings"].v[i] = r[i]

\* C1 as stated: for a results list of every length N >= 0, total_findings is
\* N and relevant_findings is the list of the first min(N, 5) findings.
C1_FirstFiveForEveryLength ==
    (MetadataBuilt /\ ResultsIsList) =>
        LET r == semgrep_json.v["results"].v
            m == analysis_metadata.v
        IN m["total_findings"] = Num(Len(r)) /\ FirstFive(r, m)

\* C1 as amended: for a results list of length N, total_findings is N; for
\* N >= 1 relevant_findings is the list of the first min(N, 5) findings in
\* their order, and for N = 0 it is the string "No findings.".
C1_FirstFiveOrSentinel ==
    (MetadataBuilt /\ ResultsIsList) =>
        LET r == semgrep_json.v["results"].v
            m == analysis_metadata.v
        IN /\ m["total_findings"] = Num(Len(r))
           /\ Len(r) >= 1 => FirstFive(r, m)
           /\ Len(r) = 0 => m["relevant_findings"] = Str("No findings.")

\* a report of six findings was summarized
C1_Witness ==
    /\ MetadataBuilt /\ ResultsIsList
    /\ Len(semgrep_json.v["results"].v) = 6
    /\ Len(analysis_metadata.v["relevant_findings"].v) = 5

\* C2: for a report whose results is absent or is no list, total_findings is
\* 0 and relevant_findings is the string "No findings.".
C2_NoListGivesSentinel ==
    (MetadataBuilt /\ ResultsIsNoList) =>
        /\ analysis_metadata.v["total_findings"] = Num(0)
        /\ analysis_metadata.v["relevant_findings"] = Str("No findings.")

\* a report whose results is a string was summarized
C2_Witness ==
    /\ MetadataBuilt /\ ResultsIsNoList
    /\ "results" \in DOMAIN semgrep_json.v
    /\ semgrep_json.v["results"].t = "str"

\* the prompt of llm.py was built
PromptBuilt == script = "llm" /\ pc \in {"call", "exit"} /\ prompt # None

\* p is the text of the first characters of s
IsTextPrefix(p, s) ==
    /\ Len(p) <= Len(s)
    /\ \A i \in 1..(Len(p) - 1) : p[i] = s[i]
    /\ p # <<>> => p[Len(p)].c = s[Len(p)].c /\ p[Len(p)].n <= s[Len(p)].n

\* the three places that hold diff_truncated agree on b
TruncatedFlagIs(b) ==
    /\ analysis_metadata.v["diff_truncated"] = Bool(b)
    /\ meta_file.v["diff_truncated"].json = (IF b THEN "true" ELSE "false")
    /\ prompt.metadata.v["diff_truncated"].json = (IF b THEN "true" ELSE "false")

\* C3: a diff of length L > 15000 reaches the prompt as its first 15000
\* characters with diff_truncated true; a diff of length L <= 15000 reaches
\* the prompt unchanged with diff_truncated false; the flag in the metadata,
\* in the metadata file and in the prompt is the same.
C3_TruncationAndFlag ==
    PromptBuilt =>
        LET L == TextLen(diff_file.content)
        IN IF L > 15000
           THEN /\ TextLen(prompt.diff) = 15000
                /\ IsTextPrefix(prompt.diff, diff_file.content)
                /\ TruncatedFlagIs(TRUE)
           ELSE /\ prompt.diff = diff_file.content
                /\ TruncatedFlagIs(FALSE)

\* a diff longer than 15000 characters reached the prompt
C3_Witness ==
    /\ PromptBuilt
    /\ TextLen(diff_file.content) > 15000
    /\ TextLen(prompt.diff) = 15000

\* the credential is set and the diff cannot be had
DiffUnavailable ==
    /\ script = "llm"
    /\ Truthy(api_key)
    /\ ~Truthy(diff_path) \/ diff_file.state \in {"missing", "unreadable"}

\* C4: with the credential present and the diff path missing, the diff file
\* missing or unreadable, the run ends with a non-zero exit code, issues no
\* request to the model and writes no metadata file.
C4_NoDiffIsFatal ==
    DiffUnavailable =>
        /\ pc \in {"start", "args", "read_diff", "exit"}
        /\ llm_calls = 0
        /\ meta_file = None
        /\ pc = "exit" => exit_code # 0

\* the run ended on a missing diff file
C4_Witness ==
    /\ DiffUnavailable
    /\ diff_file.state = "missing" /\ Truthy(diff_path)
    /\ pc = "exit" /\ exit_code = 1

\* the diff file was there and the run got to measure it
DiffMeasured ==
    /\ script = "llm"
    /\ Truthy(api_key) /\ Truthy(diff_path) /\ diff_file.state = "ok"

TrimmedLen == TextLen(Strip(diff_file.content))

\* C5: a diff of fewer than 10 characters after trimming ends the run with
\* exit code 0 and the message "too small to review", before the findings are
\* read, the metadata written or the model called; a diff of 10 or more does
\* not end the run there.
C5_SmallDiffEndsWithZero ==
    DiffMeasured =>
        IF TrimmedLen < 10
        THEN /\ pc \in {"start", "args", "read_diff", "check_size", "exit"}
             /\ pc = "exit" =>
                   /\ exit_code = 0
                   /\ Printed("Diff missing or too small to review. Exiting.")
             /\ semgrep_file = Unread
             /\ meta_file = None
             /\ llm_calls = 0
        ELSE /\ ~Printed("Diff missing or too small to review. Exiting.")
             /\ pc = "exit" => (llm_calls = 1 \/ uncaught # "none")

\* a diff of blanks around nine characters ended the run with 0
C5_Witness ==
    /\ DiffMeasured
    /\ TextLen(diff_file.content) >= 10 /\ TrimmedLen < 10
    /\ pc = "exit" /\ exit_code = 0

\* C6: without the credential the run ends with a non-zero exit code and no
\* request is ever issued to the model: llm.py ends at its first check, and
\* pr_summary_agent.py ends in call_gemini_api once it has built its prompt.
C6_NoKeyNoCall ==
    ~Truthy(api_key) =>
        /\ llm_calls = 0
        /\ llm_result = "none"
        /\ comments = <<>>
        /\ script = "llm" => /\ pc \in {"start", "exit"}
                             /\ pc = "exit" => exit_code # 0
        /\ script = "pr_summary_agent" =>
              /\ pc \notin {"post_review", "final_output"}
              /\ (pc = "exit" /\ prompt # None) =>
                    /\ exit_code # 0
                    /\ Printed("Error: GEMINI_API_KEY is not set.")

\* the agent built its prompt with an empty credential and ended with 1
C6_Witness ==
    /\ script = "pr_summary_agent"
    /\ api_key = Str("")
    /\ prompt # None
    /\ pc = "exit" /\ exit_code = 1

\* t is r without the white space at its two ends
IsTrimmed(t, r) ==
    /\ t # <<>> => Head(t).c \notin WhiteSpace /\ t[Len(t)].c \notin WhiteSpace
    /\ \E i \in 1..(Len(r) + 1) :
         /\ i + Len(t) - 1 <= Len(r)
         /\ t = SubSeq(r, i, i + Len(t) - 1)
         /\ \A k \in 1..Len(r) :
               (k < i \/ k > i + Len(t) - 1) => r[k].c \in WhiteSpace

\* C7: in llm.py a request that raises APIError or any other exception is
\* printed as a diagnostic and ends the run with a non-zero exit code without
\* a review being printed; a request that returns has its trimmed text
\* printed and the run ends with exit code 0; a run issues at most one
\* request.
C7_OneCallFailureIsFatal ==
    script = "llm" =>
        /\ llm_calls <= 1
        /\ llm_calls = 1 <=> llm_result # "none"
        /\ llm_result \in {"APIError", "Exception"} =>
              /\ pc = "exit" /\ exit_code # 0
              /\ ~Printed("review")
              /\ stdout[Len(stdout)].msg =
                    (IF llm_result = "APIError"
                     THEN "Error: Gemini API call failed"
                     ELSE "An unexpected error occurred")
        /\ llm_result = "ok" =>
              /\ pc = "exit" /\ exit_code = 0
              /\ stdout[Len(stdout)].msg = "review"
              /\ IsTrimmed(stdout[Len(stdout)].text, response)

\* the request of llm.py raised APIError and the run ended with 1
C7_Witness ==
    /\ script = "llm"
    /\ llm_result = "APIError"
    /\ llm_calls = 1
    /\ pc = "exit" /\ exit_code = 1

----------------------------------------------------------------------------
(* Properties of src/pr_summary_agent.py *)

\* C8: in a run of pr_summary_agent.py whose request to the model raises, no
\* comment is posted on the pull request and the run ends with a non-zero exit
\* code.
C8_NoCommentOnLlmFailure ==
    (script = "pr_summary_agent" /\ llm_result \in {"APIError", "Exception"}) =>
        /\ comments = <<>>
        /\ pc = "exit" => exit_code # 0

----------------------------------------------------------------------------
(* Properties of the findings of src/llm.py *)

\* the diff is valid, the credential present, and the Semgrep report could
\* not be had: no path, no file, an unreadable file or one that is not JSON
FindingsDefaulted ==
    /\ DiffMeasured
    /\ TrimmedLen >= 10
    /\ pc \in {"extract", "save", "build_prompt", "call", "exit"}
    /\ ~Truthy(semgrep_path) \/ semgrep_file.state \in {"missing", "unreadable", "invalid"}

\* C9: when the Semgrep report cannot be had, the run warns, the metadata has
\* total_findings 0, relevant_findings "No findings.", version "N/A", errors
\* "None" and paths_scanned "N/A", and the run goes on to the request to the
\* model.
C9_DefaultReportProceeds ==
    FindingsDefaulted =>
        /\ semgrep_json = Dict(EmptyDict)
        /\ \/ Printed("Warning: Semgrep file not found.")
           \/ Printed("Warning: Failed to parse Semgrep JSON.")
           \/ Printed("Warning: Error reading Semgrep file")
        /\ pc # "extract" =>
              /\ analysis_metadata.v["total_findings"] = Num(0)
              /\ analysis_metadata.v["relevant_findings"] = Str("No findings.")
              /\ analysis_metadata.v["version"] = Str("N/A")
              /\ analysis_metadata.v["errors"] = Str("None")
              /\ analysis_metadata.v["paths_scanned"] = Str("N/A")
        /\ pc = "exit" => llm_calls = 1

\* C10: for every value the Semgrep file parses to, the extraction of the
\* metadata does not raise and the run reaches the request to the model.
C10_ExtractionNeverRaises ==
    (script = "llm" /\ semgrep_file.state = "ok") =>
        /\ uncaught # "AttributeError"
        /\ pc = "exit" => llm_calls = 1

----------------------------------------------------------------------------
(* Properties of the metadata file of src/llm.py and of post_review *)

\* C11: when creating the output directory or writing the metadata file
\* fails, the run does not abort: the failure is reported and the run goes on
\* to build the prompt and to issue the request to the model.
C11_WriteFailureDoesNotAbort ==
    (script = "llm" /\ save_result \in {"makedirs raises", "open raises"}) =>
        /\ uncaught = "none"
        /\ pc = "exit" => llm_calls = 1

\* one of post_review's calls to GitHub raised
PostFailed ==
    /\ script = "pr_summary_agent"
    /\ post_result \in {"get_repo raises", "get_pull raises",
                        "create_issue_comment raises"}

\* C12: when one of post_review's calls to GitHub raises, the failure is
\* logged, the review text is still printed and the run ends with a non-zero
\* exit code; a run posts at most one comment, and only after call_gemini_api
\* has returned.
C12_PostFailureIsLoggedAndFatal ==
    script = "pr_summary_agent" =>
        /\ PostFailed =>
              /\ pc = "exit" /\ exit_code # 0
              /\ comments = <<>>
              /\ Len(stdout) >= 2
              /\ stdout[Len(stdout) - 1].msg = "Error posting comment to GitHub"
              /\ stdout[Len(stdout)].text = review_output
        /\ Len(comments) <= 1
        /\ comments # <<>> =>
              /\ llm_calls = 1
              /\ pc \in {"final_output", "exit"}
              /\ comments[1].body =
                    Fragment("## Automated Gemini Code Review for PR") \o review_output

\* create_issue_comment raised after a review was generated
C12_Witness ==
    /\ PostFailed
    /\ post_result = "create_issue_comment raises"
    /\ llm_result = "ok" /\ review_output # <<>>
    /\ pc = "exit" /\ exit_code = 1

----------------------------------------------------------------------------
(* Properties of src/smart_task_engine.py, under SpecEngine *)

\* C13: once the status of a task is COMPLETED, no step of a run_task call,
\* whether the call began after the completion or was suspended in its
\* handler when the task completed, changes the status or the result of
\* that task.
C13_CompletedIsAbsorbing ==
    [][\A id \in DOMAIN tasks :
          tasks[id].status = "COMPLETED" =>
              /\ tasks'[id].status = "COMPLETED"
              /\ SameJson(JsonDumps(tasks'[id].result), JsonDumps(tasks[id].result))]_vars

\* a run_task call that was suspended in its handler while the task completed
\* has resumed and returned, and the task is COMPLETED
C13_Witness ==
    /\ last_return.op = "run_task"
    /\ last_return.via = "handler"
    /\ last_return.was = "COMPLETED"
    /\ tasks[last_return.id].status = "COMPLETED"

\* the tasks file holds the status and the result of task id as the engine
\* has them in memory
Persisted(id) ==
    /\ id \in DOMAIN storage
    /\ SameJson(storage[id].v["status"], JsonDumps(Str(tasks[id].status)))
    /\ SameJson(storage[id].v["result"], JsonDumps(tasks[id].result))

\* C14: when create_task or run_task has returned normally, the tasks file
\* holds every task with the status and the result the engine has in memory.
C14_ReturnMeansPersisted ==
    last_return.op \in {"create_task", "run_task"} =>
        \A id \in DOMAIN tasks : Persisted(id)

====
